---- MODULE Spec2Model ----
(***************************************************************************)
(* Job lifecycle of the comment-jobs pipeline: the Job Store documents,    *)
(* the Candidate (Post) Store, the Session Report Store, the comment-jobs  *)
(* queue with its event callbacks, the status route of the API, and the    *)
(* job handlers of the two worker processes that consume the queue         *)
(* (workers/linkedPostRefinementWorker.js, started by                      *)
(* startLinkedPostRefinementWorker.js, and workers/commentWorker.js,       *)
(* imported by index.js).  Every await of a handler on a store or on the   *)
(* browser is a point where the other process, the queue and the API may   *)
(* take steps; one action is one such turn of a handler.                   *)
(*                                                                         *)
(* Time is counted in minutes.  A URL of this model stands for a scraped   *)
(* post that passes the scrape-time exclusion rules and the filters.       *)
(***************************************************************************)
EXTENDS Integers, Sequences, FiniteSets, TLC

\* ---------------------------------------------------------------- bounds
MaxJobs == 2
MaxUrls == 1
MaxPuts == 1
MaxCommentsInput == 1

\* ------------------------------------------------------ program constants
MinRestartInterval == 5
MaxFailedAttempts == 3
Attempts == 3
MaxStalledCount == 1

Jobs == 1 .. MaxJobs
Urls == 1 .. MaxUrls
UserOf(j) == 1 + ((j - 1) \div 2)
Users == {UserOf(j) : j \in Jobs}
Workers == {"linkedPostRefinementWorker", "commentWorker"}
NoWorker == "none"
NoTime == -1

\* The instants at which the clock is read: a completion is 0 or 5 minutes
\* old when a later delivery reads the clock.
Instants == {0, MinRestartInterval}

\* ------------------------------------------------------------ error texts
ErrCookies == "LinkedIn cookies are invalid or expired. Please update cookies."
ErrNoCookies == "User does not have valid LinkedIn cookies"
ErrValidation == "Post validation failed: userId: Path userId is required."
ErrStore == "status write failed"
ErrTooMany == "Job failed too many times"
NoError == ""

\* --------------------------------------------------------- handler results
RetAlready == "Job already being processed"
RetRecent == "Job completed recently"
RetTooMany == "Too many failed attempts"
RetSuccess == "success"

VARIABLES
  jobs,          \* Job Store: job id -> CommentJob document
  posts,         \* Candidate Store: <<url, user>> -> Post document
  reports,       \* Session Report Store: job id -> documents created
  queue,         \* comment-jobs queue: job id -> state of the queue job
  lock,          \* job id -> the worker that holds the queue job's lock
  attemptsMade,  \* job id -> attempts the queue has counted
  stalled,       \* job id -> times the queue job was moved back to wait
  events,        \* queue events emitted and not yet handled by a callback
  wk,            \* worker -> state of its handler run
  clock,         \* now, in minutes
  submitted,     \* <<url, user>> -> replies submitted to the external site
  failures,      \* job id -> runs of a handler's failure path
  puts,          \* status updates done through the API
  requestCount,  \* commentWorker.js: the rate limiting tracker
  time,          \* Date.now() of the rate limiting tracker, in units of 10 s
  scroll,        \* the scroll loop of the keyword pass
  visit,         \* the externally visible actions of one handler run
  submission,    \* the comment loop of commentWorker.js on its items
  flt,           \* a list of scraped posts on its way through the filters
  api,           \* POST /start-comment-job: position of the route handler
  proc,          \* the worker process and its signal handlers
  scrape,        \* the scraping pass of commentWorker.js over its keywords
  rate           \* a caller of checkRateLimit and the wait time it got

jobVars == <<jobs, posts, reports, queue, lock, attemptsMade, stalled, events,
             wk, clock, submitted, failures, puts>>

\* The parts of a handler run that the job lifecycle above abstracts.
aux == <<requestCount, time, scroll, visit, submission, flt, api, proc,
        scrape, rate>>

\* The parts added last, left alone by the parts before them.
rest == <<api, proc, scrape, rate>>

vars == <<jobVars, aux>>

\* ------------------------------------------------------------- Job Store
SchemaPaths ==
  {"status", "startedAt", "completedAt", "error", "currentStep",
   "stepProgress", "result", "userId", "keywords", "maxComments", "options",
   "createdAt"}

NoResult == [success |-> FALSE, commentedCount |-> 0, totalPostsScraped |-> 0,
             filteredPosts |-> 0, failed |-> 0]

\* A document of this model keeps the paths that the guards, the claims on
\* status, progress, error and result read; startedAt and the job's input
\* paths are written but never read by a handler and are not stored.
NoDoc == [status |-> "none"]

Exists(doc) == doc.status # "none"

NewJobDoc ==
  [status |-> "waiting", completedAt |-> NoTime,
   error |-> NoError, currentStep |-> "Queued", stepProgress |-> 0,
   result |-> NoResult]

\* Mongoose strict mode: an update keeps only the paths the schema declares.
CastUpdate(update) ==
  [p \in (DOMAIN update) \cap SchemaPaths |-> update[p]]

ApplyUpdate(doc, update) ==
  [p \in DOMAIN doc |-> IF p \in DOMAIN update THEN update[p] ELSE doc[p]]

FindByIdAndUpdate(store, id, update) ==
  IF Exists(store[id])
    THEN [store EXCEPT ![id] = ApplyUpdate(@, CastUpdate(update))]
    ELSE store

\* existingJob.failedAttempts || 0
FailedAttemptsOf(doc) ==
  IF "failedAttempts" \in DOMAIN doc THEN doc.failedAttempts ELSE 0

\* ------------------------------------------------------- Candidate Store
NoPost == [jobId |-> 0, isCommented |-> FALSE]

PostKeys == Urls \X Users

\* Post.find({ jobId, userId }).distinct('postUrl')
ExistingPostUrls(store, j) ==
  {x \in Urls : store[<<x, UserOf(j)>>].jobId = j}

\* Post.find({ jobId, userId, isCommented: true }).distinct('postUrl')
CommentedPostUrls(store, j) ==
  {x \in Urls : store[<<x, UserOf(j)>>].jobId = j
                /\ store[<<x, UserOf(j)>>].isCommented}

\* -------------------------------------------------- Session Report Store
\* Append-only and never read by a handler: the store keeps, per job, the
\* number of documents created and the latest of them.
NoReport ==
  [jobId |-> 0, userId |-> 0, totalPostsScraped |-> 0, filteredPosts |-> 0,
   commentsPosted |-> 0, failed |-> 0, errors |-> <<>>]

NoReports == [count |-> 0, last |-> NoReport]

\* SessionReport.create(doc)
Create(store, doc) == [count |-> store.count + 1, last |-> doc]

\* ------------------------------------------------------------- sequences
RECURSIVE SetToSeq(_)
SetToSeq(S) ==
  IF S = {} THEN <<>>
  ELSE LET x == CHOOSE y \in S : \A z \in S : y <= z
       IN <<x>> \o SetToSeq(S \ {x})

Range(s) == {s[k] : k \in DOMAIN s}

Min(a, b) == IF a <= b THEN a ELSE b

\* maxComments * 1.5 rounded down
ScrapeTargetFloor(maxComments) == (3 * maxComments) \div 2

\* Math.ceil(maxComments * 1.5)
ScrapeTarget(maxComments) == (3 * maxComments + 1) \div 2

\* ------------------------------------------------------------- handler run
IdleRun ==
  [pc |-> "idle", jobId |-> 0, existingFailedAttempts |-> 0,
   browser |-> FALSE,
   scrapedPosts |-> <<>>, postsForCommenting |-> <<>>, i |-> 1,
   commentedCount |-> 0, failedCount |-> 0, error |-> NoError,
   nReports |-> 0, priorFailures |-> 0, finalStatus |-> "none"]

PipelinePcs ==
  {"launch", "session", "scrape", "persist", "select", "act",
   "report", "writeCompleted"}

InitJobs ==
  /\ jobs = [j \in Jobs |-> NoDoc]
  /\ posts = [k \in PostKeys |-> NoPost]
  /\ reports = [j \in Jobs |-> NoReports]
  /\ queue = [j \in Jobs |-> "none"]
  /\ lock = [j \in Jobs |-> NoWorker]
  /\ attemptsMade = [j \in Jobs |-> 0]
  /\ stalled = [j \in Jobs |-> 0]
  /\ events = {}
  /\ wk = [w \in Workers |-> IdleRun]
  /\ clock = 0
  /\ submitted = [k \in PostKeys |-> 0]
  /\ failures = [j \in Jobs |-> 0]
  /\ puts = 0

NoRequests == [minute |-> [count |-> 0, resetTime |-> 0],
               hour |-> [count |-> 0, resetTime |-> 0]]

RestIdle ==
  /\ api = [pc |-> "idle"]
  /\ proc = [pc |-> "idle"]
  /\ scrape = [pc |-> "idle"]
  /\ rate = [pc |-> "idle"]

AuxIdle ==
  /\ requestCount = NoRequests
  /\ time = 0
  /\ scroll = [pc |-> "idle"]
  /\ visit = [pc |-> "idle"]
  /\ submission = [pc |-> "idle"]
  /\ flt = [pc |-> "idle"]
  /\ RestIdle

Init == InitJobs /\ AuxIdle

\* ------------------------------------------------------ queue transport
\* The handler of worker w resolved with returnvalue: the queue job is moved
\* to completed and the completed event is emitted, when w still holds the
\* lock of the queue job.
Completed(w, j, returnvalue) ==
  /\ IF lock[j] = w
       THEN /\ queue' = [queue EXCEPT ![j] = "completed"]
            /\ lock' = [lock EXCEPT ![j] = NoWorker]
            /\ events' = events \cup
                 {[type |-> "completed", jobId |-> j, data |-> returnvalue]}
       ELSE UNCHANGED <<queue, lock, events>>
  /\ UNCHANGED attemptsMade

\* The handler of worker w rejected with err: the queue counts the attempt,
\* retries the job while attempts remain and emits the failed event.
Failed(w, j, err) ==
  IF lock[j] = w
    THEN /\ attemptsMade' = [attemptsMade EXCEPT ![j] = @ + 1]
         /\ queue' = [queue EXCEPT ![j] =
                        IF attemptsMade[j] + 1 < Attempts THEN "wait"
                                                          ELSE "failed"]
         /\ lock' = [lock EXCEPT ![j] = NoWorker]
         /\ events' = events \cup
              {[type |-> "failed", jobId |-> j, data |-> err]}
    ELSE UNCHANGED <<queue, lock, events, attemptsMade>>

\* POST /start-comment-job: create the document, enqueue, write Queued.
StartCommentJob(j) ==
  /\ ~Exists(jobs[j])
  /\ queue[j] = "none"
  /\ jobs' = [jobs EXCEPT ![j] = NewJobDoc]
  /\ queue' = [queue EXCEPT ![j] = "wait"]
  /\ UNCHANGED <<posts, reports, lock, attemptsMade, stalled, events, wk,
                 clock, submitted, failures, puts>>
  /\ UNCHANGED aux

\* The queue hands a waiting job to an idle worker (concurrency: 1).  A job
\* that failed waits out its backoff delay first: the callbacks of the events
\* of its earlier attempts have run by then.
Deliver(w, j) ==
  /\ wk[w].pc = "idle"
  /\ queue[j] = "wait"
  /\ \A e \in events : e.jobId = j => e.type = "active"
  /\ queue' = [queue EXCEPT ![j] = "active"]
  /\ lock' = [lock EXCEPT ![j] = w]
  /\ events' = events \cup {[type |-> "active", jobId |-> j, data |-> NoError]}
  /\ wk' = [wk EXCEPT ![w] =
              [IdleRun EXCEPT !.pc = "findById", !.jobId = j,
                              !.priorFailures = failures[j]]]
  /\ UNCHANGED <<jobs, posts, reports, attemptsMade, stalled, clock,
                 submitted, failures, puts>>
  /\ UNCHANGED aux

\* At-least-once delivery: the lock of an active queue job expires while its
\* handler still runs, and the job goes back to wait (maxStalledCount).
Stall(j) ==
  /\ queue[j] = "active"
  /\ stalled[j] < MaxStalledCount
  /\ queue' = [queue EXCEPT ![j] = "wait"]
  /\ lock' = [lock EXCEPT ![j] = NoWorker]
  /\ stalled' = [stalled EXCEPT ![j] = @ + 1]
  /\ UNCHANGED <<jobs, posts, reports, attemptsMade, events, wk, clock,
                 submitted, failures, puts>>
  /\ UNCHANGED aux

\* ------------------------------------------------- queue event callbacks
OnCompleted(e) ==
  /\ e \in events
  /\ e.type = "completed"
  /\ events' = events \ {e}
  /\ jobs' = FindByIdAndUpdate(jobs, e.jobId,
       [status |-> "completed", currentStep |-> "Completed",
        stepProgress |-> 100, completedAt |-> clock])
  /\ UNCHANGED <<posts, reports, queue, lock, attemptsMade, stalled, wk,
                 clock, submitted, failures, puts>>
  /\ UNCHANGED aux

OnFailed(e) ==
  /\ e \in events
  /\ e.type = "failed"
  /\ events' = events \ {e}
  /\ jobs' = FindByIdAndUpdate(jobs, e.jobId,
       [status |-> "failed", error |-> e.data, currentStep |-> "Failed",
        completedAt |-> clock])
  /\ UNCHANGED <<posts, reports, queue, lock, attemptsMade, stalled, wk,
                 clock, submitted, failures, puts>>
  /\ UNCHANGED aux

OnActive(e) ==
  /\ e \in events
  /\ e.type = "active"
  /\ events' = events \ {e}
  /\ jobs' = FindByIdAndUpdate(jobs, e.jobId,
       [status |-> "active", startedAt |-> clock,
        currentStep |-> "Processing", stepProgress |-> 0])
  /\ UNCHANGED <<posts, reports, queue, lock, attemptsMade, stalled, wk,
                 clock, submitted, failures, puts>>
  /\ UNCHANGED aux

\* ------------------------------------------------------------------- API
\* The route stores any status it is sent; these are the ones a worker reports.
StatusInputs == {"active", "completed", "failed"}

\* PUT /api/comment-jobs/:jobId/status
PutStatus(j, status) ==
  /\ puts < MaxPuts
  /\ Exists(jobs[j])
  /\ puts' = puts + 1
  /\ jobs' = FindByIdAndUpdate(jobs, j,
       IF status = "active"
         THEN [status |-> status, startedAt |-> clock]
       ELSE IF status \in {"completed", "failed"}
         THEN [status |-> status, completedAt |-> clock]
       ELSE [status |-> status])
  /\ UNCHANGED <<posts, reports, queue, lock, attemptsMade, stalled, events,
                 wk, clock, submitted, failures>>
  /\ UNCHANGED aux

Tick ==
  /\ \E t \in Instants : t > clock /\ clock' = t
  /\ UNCHANGED <<jobs, posts, reports, queue, lock, attemptsMade, stalled,
                 events, wk, submitted, failures, puts>>
  /\ UNCHANGED aux

\* ---------------------------------------------------------- job handlers
Refinement == "linkedPostRefinementWorker"

\* job.data.maxComments
MaxCommentsOf(j) == MaxCommentsInput

Goto(w, pc) == [wk EXCEPT ![w].pc = pc]

Throw(w, err) == [wk EXCEPT ![w].pc = "catch", ![w].error = err]

\* The handler returns or rethrows: the worker is idle again.  A browser that
\* the run launched and did not close stays open.
Return(w) == [wk EXCEPT ![w] = [IdleRun EXCEPT !.browser = wk[w].browser]]

\* browser.close() and the return of the success path.
ReturnClosed(w) == [wk EXCEPT ![w] = IdleRun]

Progress(j, step, percent) ==
  FindByIdAndUpdate(jobs, j, [currentStep |-> step, stepProgress |-> percent])

\* The cooldown guard of linkedPostRefinementWorker.js.
CompletedRecently(existingJob, now) ==
  /\ Exists(existingJob)
  /\ existingJob.status = "completed"
  /\ existingJob.completedAt # NoTime
  /\ now - existingJob.completedAt < MinRestartInterval

\* The failed-attempts guard of linkedPostRefinementWorker.js.
TooManyFailedAttempts(existingJob) ==
  /\ Exists(existingJob)
  /\ existingJob.status = "failed"
  /\ FailedAttemptsOf(existingJob) >= MaxFailedAttempts

\* CommentJob.findById(jobId) and the entry guards evaluated on its result.
FindById(w) ==
  LET j == wk[w].jobId
      existingJob == jobs[j]
  IN
  /\ wk[w].pc = "findById"
  /\ IF Exists(existingJob) /\ existingJob.status = "active"
       THEN /\ wk' = Return(w)
            /\ Completed(w, j, RetAlready)
     ELSE IF w = Refinement /\ CompletedRecently(existingJob, clock)
       THEN /\ wk' = Return(w)
            /\ Completed(w, j, RetRecent)
     ELSE IF w = Refinement /\ TooManyFailedAttempts(existingJob)
       THEN /\ wk' = [wk EXCEPT ![w].pc = "markPermanentlyFailed",
                      ![w].existingFailedAttempts = FailedAttemptsOf(existingJob)]
            /\ UNCHANGED <<queue, lock, events, attemptsMade>>
     ELSE /\ wk' = [wk EXCEPT ![w].pc = "setActive",
                    ![w].existingFailedAttempts = FailedAttemptsOf(existingJob)]
          /\ UNCHANGED <<queue, lock, events, attemptsMade>>
  /\ UNCHANGED <<jobs, posts, reports, stalled, clock, submitted, failures,
                 puts>>
  /\ UNCHANGED aux

\* The write that follows the guards: status active, or permanently_failed.
EntryWrite(w) ==
  LET j == wk[w].jobId IN
  /\ wk[w].pc \in {"setActive", "markPermanentlyFailed"}
  /\ IF wk[w].pc = "markPermanentlyFailed"
       THEN /\ jobs' = FindByIdAndUpdate(jobs, j,
                 [status |-> "permanently_failed", error |-> ErrTooMany,
                  completedAt |-> clock])
            /\ wk' = Return(w)
            /\ Completed(w, j, RetTooMany)
       ELSE /\ jobs' = FindByIdAndUpdate(jobs, j,
                 [status |-> "active", startedAt |-> clock,
                  currentStep |-> "Starting", stepProgress |-> 10])
            /\ wk' = Goto(w, "launch")
            /\ UNCHANGED <<queue, lock, events, attemptsMade>>
  /\ UNCHANGED <<posts, reports, stalled, clock, submitted, failures, puts>>
  /\ UNCHANGED aux

\* Progress 20 and 30 and puppeteer.launch (in commentWorker.js after the
\* check that the user has stored cookies).
Launch(w) ==
  LET j == wk[w].jobId IN
  /\ wk[w].pc = "launch"
  /\ jobs' = Progress(j, "Launching Browser", 30)
  /\ wk' = [wk EXCEPT ![w].pc = "session", ![w].browser = TRUE]
  /\ UNCHANGED <<posts, reports, queue, lock, attemptsMade, stalled, events,
                 clock, submitted, failures, puts>>
  /\ UNCHANGED aux

\* commentWorker.js: hasValidLinkedInCookies(userId) is false and the handler
\* throws before the browser is launched.
NoValidCookies(w) ==
  /\ wk[w].pc = "launch"
  /\ w # Refinement
  /\ wk' = Throw(w, ErrNoCookies)
  /\ UNCHANGED <<jobs, posts, reports, queue, lock, attemptsMade, stalled,
                 events, clock, submitted, failures, puts>>
  /\ UNCHANGED aux

\* The login check with the li_at cookie finds the feed.
Session(w) ==
  /\ wk[w].pc = "session"
  /\ wk' = Goto(w, "scrape")
  /\ UNCHANGED <<jobs, posts, reports, queue, lock, attemptsMade, stalled,
                 events, clock, submitted, failures, puts>>
  /\ UNCHANGED aux

\* The login check fails: the handler throws with the browser open.
SessionExpired(w) ==
  /\ wk[w].pc = "session"
  /\ wk' = Throw(w, ErrCookies)
  /\ UNCHANGED <<jobs, posts, reports, queue, lock, attemptsMade, stalled,
                 events, clock, submitted, failures, puts>>
  /\ UNCHANGED aux

\* Progress 40 and the keyword scrape up to the scrape target.
\* linkedPostRefinementWorker.js skips the URLs stored for this job and user.
Scrape(w) ==
  LET j == wk[w].jobId
      seen == IF w = Refinement THEN ExistingPostUrls(posts, j) ELSE {}
  IN
  /\ wk[w].pc = "scrape"
  /\ jobs' = Progress(j, "Scraping Posts", 40)
  /\ \E found \in SUBSET (Urls \ seen) :
       /\ Cardinality(found) <= ScrapeTarget(MaxCommentsOf(j))
       /\ wk' = [wk EXCEPT ![w].pc = "persist",
                           ![w].scrapedPosts = SetToSeq(found)]
  /\ UNCHANGED <<posts, reports, queue, lock, attemptsMade, stalled, events,
                 clock, submitted, failures, puts>>
  /\ UNCHANGED aux

\* Post.insertMany(docs, { ordered: false }) with the duplicate-key error
\* caught: the documents whose (postUrl, userId) is free are inserted.
InsertManyUnordered(store, urls, j) ==
  [k \in PostKeys |->
     IF k[1] \in urls /\ k[2] = UserOf(j) /\ store[k] = NoPost
       THEN [jobId |-> j, isCommented |-> FALSE]
       ELSE store[k]]

\* Progress 60 and the insert of the scraped posts.  The documents that
\* commentWorker.js builds carry no userId, which the Post schema requires:
\* a batch that is not empty is rejected by validation.
Persist(w) ==
  LET j == wk[w].jobId
      urls == Range(wk[w].scrapedPosts)
  IN
  /\ wk[w].pc = "persist"
  /\ IF w = Refinement
       THEN /\ jobs' = Progress(j, "Processing Posts", 60)
            /\ posts' = InsertManyUnordered(posts, urls, j)
            /\ wk' = Goto(w, "select")
       ELSE /\ jobs' = Progress(j, "Filtering Posts", 60)
            /\ UNCHANGED posts
            /\ wk' = IF urls = {} THEN Goto(w, "select")
                                  ELSE Throw(w, ErrValidation)
  /\ UNCHANGED <<reports, queue, lock, attemptsMade, stalled, events, clock,
                 submitted, failures, puts>>
  /\ UNCHANGED aux

\* scrapedPosts.filter(not commented), rank, slice(0, maxComments)
PostsForCommenting(scrapedPosts, commentedPostUrls, maxComments) ==
  LET availablePosts ==
        SelectSeq(scrapedPosts, LAMBDA x : x \notin commentedPostUrls)
  IN SubSeq(availablePosts, 1, Min(Len(availablePosts), maxComments))

\* The selection of the posts to comment on.
Select(w) ==
  LET j == wk[w].jobId
      commented == IF w = Refinement THEN CommentedPostUrls(posts, j) ELSE {}
      chosen == PostsForCommenting(wk[w].scrapedPosts, commented,
                                   MaxCommentsOf(j))
  IN
  /\ wk[w].pc = "select"
  /\ jobs' = IF w = Refinement THEN jobs
             ELSE Progress(j, "Generating Comments", 70)
  /\ wk' = [wk EXCEPT ![w].pc = IF chosen = <<>> THEN "report" ELSE "act",
                      ![w].postsForCommenting = chosen, ![w].i = 1]
  /\ UNCHANGED <<posts, reports, queue, lock, attemptsMade, stalled, events,
                 clock, submitted, failures, puts>>
  /\ UNCHANGED aux

\* Post.findOneAndUpdate(filter, { isCommented: true, ... }):
\* linkedPostRefinementWorker.js filters on { postUrl, jobId, userId },
\* commentWorker.js on { postUrl } alone (the first document with the URL).
MarkCommented(store, w, x, j) ==
  LET match ==
        IF w = Refinement
          THEN {k \in PostKeys : k = <<x, UserOf(j)>> /\ store[k].jobId = j}
          ELSE {k \in PostKeys : k[1] = x /\ store[k] # NoPost}
  IN IF match = {} THEN store
     ELSE LET k == CHOOSE m \in match : \A n \in match : m[2] <= n[2]
          IN [store EXCEPT ![k].isCommented = TRUE]

\* One turn of the comment loop: the reply is submitted and the post marked,
\* or the item fails and the loop goes on.
Act(w) ==
  LET j == wk[w].jobId
      x == wk[w].postsForCommenting[wk[w].i]
      next == IF wk[w].i = Len(wk[w].postsForCommenting) THEN "report"
                                                         ELSE "act"
  IN
  /\ wk[w].pc = "act"
  /\ \/ /\ submitted' = [submitted EXCEPT ![<<x, UserOf(j)>>] = @ + 1]
        /\ posts' = MarkCommented(posts, w, x, j)
        /\ wk' = [wk EXCEPT ![w].pc = next, ![w].i = @ + 1,
                            ![w].commentedCount = @ + 1]
     \/ /\ UNCHANGED <<submitted, posts>>
        /\ wk' = [wk EXCEPT ![w].pc = next, ![w].i = @ + 1,
                    ![w].failedCount = IF w = Refinement THEN @ ELSE @ + 1]
  /\ UNCHANGED <<jobs, reports, queue, lock, attemptsMade, stalled, events,
                 clock, failures, puts>>
  /\ UNCHANGED aux

\* A failed count that forgets the items that were not acted on.
FailedOfActedOnly(w) == 0

\* A failed count read from failedCount in both handlers, which the comment
\* loop of linkedPostRefinementWorker.js never increments.
FailedOfCounter(w) == wk[w].failedCount

\* The failed count of the report and of the job result.
FailedOf(w) ==
  IF w = Refinement
    THEN Len(wk[w].postsForCommenting) - wk[w].commentedCount
    ELSE wk[w].failedCount

\* Progress 90 and SessionReport.create on the success path.
Report(w) ==
  LET j == wk[w].jobId IN
  /\ wk[w].pc = "report"
  /\ jobs' = Progress(j, "Finalizing", 90)
  /\ reports' = [reports EXCEPT ![j] = Create(@,
       [jobId |-> j, userId |-> UserOf(j),
        totalPostsScraped |-> Len(wk[w].scrapedPosts),
        filteredPosts |-> Len(wk[w].postsForCommenting),
        commentsPosted |-> wk[w].commentedCount,
        failed |-> FailedOf(w), errors |-> <<>>])]
  /\ wk' = [wk EXCEPT ![w].pc = "writeCompleted", ![w].nReports = @ + 1]
  /\ UNCHANGED <<posts, queue, lock, attemptsMade, stalled, events, clock,
                 submitted, failures, puts>>
  /\ UNCHANGED aux

\* The write of status completed, the browser cleanup and the return.
WriteCompleted(w) ==
  LET j == wk[w].jobId IN
  /\ wk[w].pc = "writeCompleted"
  /\ jobs' = FindByIdAndUpdate(jobs, j,
             [status |-> "completed", completedAt |-> clock,
              result |-> [success |-> TRUE,
                          commentedCount |-> wk[w].commentedCount,
                          totalPostsScraped |-> Len(wk[w].scrapedPosts),
                          filteredPosts |-> Len(wk[w].postsForCommenting),
                          failed |-> FailedOf(w)],
              currentStep |-> "Completed", stepProgress |-> 100])
  /\ wk' = ReturnClosed(w)
  /\ Completed(w, j, RetSuccess)
  /\ UNCHANGED <<posts, reports, stalled, clock, submitted, failures, puts>>
  /\ UNCHANGED aux

\* The store rejects the write of status completed (or the queue rejects the
\* updateProgress that follows it): the handler catches it as any exception.
WriteRejected(w) ==
  /\ wk[w].pc = "writeCompleted"
  /\ wk' = Throw(w, ErrStore)
  /\ UNCHANGED <<jobs, posts, reports, queue, lock, attemptsMade, stalled,
                 events, clock, submitted, failures, puts>>
  /\ UNCHANGED aux

\* The catch block: the write of status failed.
\* linkedPostRefinementWorker.js closes the browser first and also sends
\* failedAttempts, a path that commentJobSchema does not declare.  The catch
\* block of commentWorker.js names a browser variable that its try block
\* declared: the reference fails and the browser is not closed.
Catch(w) ==
  LET j == wk[w].jobId IN
  /\ wk[w].pc = "catch"
  /\ jobs' = FindByIdAndUpdate(jobs, j,
       IF w = Refinement
         THEN [status |-> "failed", error |-> wk[w].error,
               failedAttempts |-> wk[w].existingFailedAttempts + 1,
               completedAt |-> clock, currentStep |-> "Failed",
               stepProgress |-> 0]
         ELSE [status |-> "failed", error |-> wk[w].error,
               completedAt |-> clock, currentStep |-> "Failed",
               stepProgress |-> 0])
  /\ failures' = [failures EXCEPT ![j] = @ + 1]
  /\ wk' = [wk EXCEPT ![w].pc = "errorReport", ![w].finalStatus = "failed",
              ![w].browser = IF w = Refinement THEN FALSE ELSE @]
  /\ UNCHANGED <<posts, reports, queue, lock, attemptsMade, stalled, events,
                 clock, submitted, puts>>
  /\ UNCHANGED aux

\* The catch block: the error Session Report, then the rethrow to the queue.
ErrorReport(w) ==
  LET j == wk[w].jobId IN
  /\ wk[w].pc = "errorReport"
  /\ reports' = [reports EXCEPT ![j] = Create(@,
       [jobId |-> j, userId |-> UserOf(j), totalPostsScraped |-> 0,
        filteredPosts |-> 0, commentsPosted |-> 0, failed |-> 1,
        errors |-> <<[message |-> wk[w].error, step |-> "Job execution"]>>])]
  /\ wk' = Return(w)
  /\ Failed(w, j, wk[w].error)
  /\ UNCHANGED <<jobs, posts, stalled, clock, submitted, failures, puts>>
  /\ UNCHANGED aux

\* The steps of the handlers and of the queue on a run without faults.
Handlers ==
  \/ \E w \in Workers, j \in Jobs : Deliver(w, j)
  \/ \E e \in events : OnCompleted(e)
  \/ \E e \in events : OnFailed(e)
  \/ \E e \in events : OnActive(e)
  \/ \E w \in Workers : FindById(w)
  \/ \E w \in Workers : EntryWrite(w)
  \/ \E w \in Workers : Launch(w)
  \/ \E w \in Workers : Session(w)
  \/ \E w \in Workers : Scrape(w)
  \/ \E w \in Workers : Persist(w)
  \/ \E w \in Workers : Select(w)
  \/ \E w \in Workers : Act(w)
  \/ \E w \in Workers : Report(w)
  \/ \E w \in Workers : WriteCompleted(w)
  \/ \E w \in Workers : Catch(w)
  \/ \E w \in Workers : ErrorReport(w)

\* The faults of the collaborators, the API and the passing of time.
Environment ==
  \/ \E j \in Jobs : Stall(j)
  \/ \E j \in Jobs, status \in StatusInputs : PutStatus(j, status)
  \/ Tick
  \/ \E w \in Workers : NoValidCookies(w)
  \/ \E w \in Workers : SessionExpired(w)
  \/ \E w \in Workers : WriteRejected(w)

\* One job, created once, under every fault.
Next ==
  \/ StartCommentJob(1)
  \/ Handlers
  \/ Environment

Spec == Init /\ [][Next]_vars

\* Every job of the bound, two of them of one user, on runs without faults.
NextJobs ==
  \/ \E j \in Jobs : StartCommentJob(j)
  \/ Handlers

SpecJobs == Init /\ [][NextJobs]_vars

\* One job, created once, on runs without faults.
NextOneJob ==
  \/ StartCommentJob(1)
  \/ Handlers

SpecOneJob == Init /\ [][NextOneJob]_vars

\* --------------------------------- a queue job without its document
\* The queue keeps its jobs in Redis and the Job Store is a MongoDB
\* collection: the handlers take jobId from job.data and look the document
\* up.  Here the queue holds a waiting job whose id has no document.
InitOrphan ==
  /\ jobs = [j \in Jobs |-> NoDoc]
  /\ posts = [k \in PostKeys |-> NoPost]
  /\ reports = [j \in Jobs |-> NoReports]
  /\ queue = [j \in Jobs |-> IF j = 1 THEN "wait" ELSE "none"]
  /\ lock = [j \in Jobs |-> NoWorker]
  /\ attemptsMade = [j \in Jobs |-> 0]
  /\ stalled = [j \in Jobs |-> 0]
  /\ events = {}
  /\ wk = [w \in Workers |-> IdleRun]
  /\ clock = 0
  /\ submitted = [k \in PostKeys |-> 0]
  /\ failures = [j \in Jobs |-> 0]
  /\ puts = 0
  /\ AuxIdle

SpecOrphan == InitOrphan /\ [][Handlers]_vars

\* ------------------------------- POST /start-comment-job, await by await
\* CommentJob.create: the progress paths are not set (stepProgress is read
\* as 0).
CreatedJobDoc == [NewJobDoc EXCEPT !.currentStep = ""]

\* CommentJob.create and addCommentJob.
CreateAndEnqueue(j) ==
  /\ api.pc = "idle"
  /\ ~Exists(jobs[j])
  /\ queue[j] = "none"
  /\ jobs' = [jobs EXCEPT ![j] = CreatedJobDoc]
  /\ queue' = [queue EXCEPT ![j] = "wait"]
  /\ api' = [pc |-> "enqueued", jobId |-> j]
  /\ UNCHANGED <<posts, reports, lock, attemptsMade, stalled, events, wk,
                 clock, submitted, failures, puts>>
  /\ UNCHANGED <<requestCount, time, scroll, visit, submission, flt, proc,
                 scrape, rate>>

\* The update that follows addCommentJob: step Queued, stepProgress 0
\* (totalSteps is not stored by this model).
QueuedWrite ==
  /\ api.pc = "enqueued"
  /\ jobs' = Progress(api.jobId, "Queued", 0)
  /\ api' = [pc |-> "done"]
  /\ UNCHANGED <<posts, reports, queue, lock, attemptsMade, stalled, events,
                 wk, clock, submitted, failures, puts>>
  /\ UNCHANGED <<requestCount, time, scroll, visit, submission, flt, proc,
                 scrape, rate>>

\* One job, fault-free, with the route handler interleaved with the queue.
NextProgress ==
  \/ CreateAndEnqueue(1)
  \/ QueuedWrite
  \/ Handlers

SpecProgress == Init /\ [][NextProgress]_vars

\* ------------------------------------------- death of a worker process
\* The steps of the handler of worker w.
Run(w) ==
  \/ FindById(w)
  \/ EntryWrite(w)
  \/ Launch(w)
  \/ Session(w)
  \/ Scrape(w)
  \/ Persist(w)
  \/ Select(w)
  \/ Act(w)
  \/ Report(w)
  \/ WriteCompleted(w)
  \/ Catch(w)
  \/ ErrorReport(w)

InitCrash ==
  /\ InitJobs
  /\ requestCount = NoRequests
  /\ time = 0
  /\ scroll = [pc |-> "idle"]
  /\ visit = [pc |-> "idle"]
  /\ submission = [pc |-> "idle"]
  /\ flt = [pc |-> "idle"]
  /\ api = [pc |-> "idle"]
  /\ proc = [pc |-> "up"]
  /\ scrape = [pc |-> "idle"]
  /\ rate = [pc |-> "idle"]

\* The process of worker w dies past the handler's write of status active and
\* is started again: the run and its browser are gone, the persisted status
\* and the lock of the queue job stay as they are.
Crash(w) ==
  /\ proc.pc = "up"
  /\ wk[w].pc \in PipelinePcs
  /\ jobs[wk[w].jobId].status = "active"
  /\ wk' = [wk EXCEPT ![w] = IdleRun]
  /\ proc' = [pc |-> "restarted", jobId |-> wk[w].jobId]
  /\ UNCHANGED <<jobs, posts, reports, queue, lock, attemptsMade, stalled,
                 events, clock, submitted, failures, puts>>
  /\ UNCHANGED <<requestCount, time, scroll, visit, submission, flt, api,
                 scrape, rate>>

\* The queue finds the job of the dead run stalled and moves it back to wait.
Redeliver(j) ==
  /\ lock[j] \in Workers
  /\ wk[lock[j]].jobId # j
  /\ Stall(j)

NextCrash ==
  \/ StartCommentJob(1)
  \/ Handlers
  \/ \E w \in Workers : Crash(w)
  \/ Redeliver(1)

\* The queue delivers and redelivers, and a handler that runs goes on; the
\* callbacks registered on the queue object run when the library emits their
\* events, which nothing in the handlers waits for.
SpecCrash ==
  /\ InitCrash
  /\ [][NextCrash]_vars
  /\ WF_vars(Redeliver(1))
  /\ WF_vars(\E w \in Workers : Deliver(w, 1))
  /\ \A w \in Workers : WF_vars(Run(w))

\* ------------------------------------------ rate governor (commentWorker.js)
\* Times are in units of 10 s.
MAX_REQUESTS_PER_MINUTE == 5
MAX_REQUESTS_PER_HOUR == 50
MinuteWindow == 6
HourWindow == 360
SCROLL_DELAY == 1
MaxScrolls == 15
MaxStagnant == 3

\* The latest time at which the scroll loop starts.
MaxStart == 3

\* let requestCount = { minute: ..., hour: ... } at the load of the module
LoadedRequestCount(t) ==
  [minute |-> [count |-> 0, resetTime |-> t + MinuteWindow],
   hour |-> [count |-> 0, resetTime |-> t + HourWindow]]


\* checkRateLimit() with caps that hold one request more
CheckRateLimitLate(rc, t) ==
  LET minute == IF t > rc.minute.resetTime
                  THEN [count |-> 0, resetTime |-> t + MinuteWindow]
                  ELSE rc.minute
      hour == IF t > rc.hour.resetTime
                THEN [count |-> 0, resetTime |-> t + HourWindow]
                ELSE rc.hour
  IN IF minute.count > MAX_REQUESTS_PER_MINUTE
       THEN [requestCount |-> [minute |-> minute, hour |-> hour],
             waitTime |-> minute.resetTime - t]
     ELSE IF hour.count > MAX_REQUESTS_PER_HOUR
       THEN [requestCount |-> [minute |-> minute, hour |-> hour],
             waitTime |-> hour.resetTime - t]
     ELSE [requestCount |->
             [minute |-> [minute EXCEPT !.count = @ + 1],
              hour |-> [hour EXCEPT !.count = @ + 1]],
           waitTime |-> 0]

\* checkRateLimit(): the tracker after the call and the wait time returned.
CheckRateLimit(rc, t) ==
  LET minute == IF t > rc.minute.resetTime
                  THEN [count |-> 0, resetTime |-> t + MinuteWindow]
                  ELSE rc.minute
      hour == IF t > rc.hour.resetTime
                THEN [count |-> 0, resetTime |-> t + HourWindow]
                ELSE rc.hour
  IN IF minute.count >= MAX_REQUESTS_PER_MINUTE
       THEN [requestCount |-> [minute |-> minute, hour |-> hour],
             waitTime |-> minute.resetTime - t]
     ELSE IF hour.count >= MAX_REQUESTS_PER_HOUR
       THEN [requestCount |-> [minute |-> minute, hour |-> hour],
             waitTime |-> hour.resetTime - t]
     ELSE [requestCount |->
             [minute |-> [minute EXCEPT !.count = @ + 1],
              hour |-> [hour EXCEPT !.count = @ + 1]],
           waitTime |-> 0]

\* The scroll loop of the keyword pass starts, some time after the load.
InitScroll ==
  /\ InitJobs
  /\ requestCount = LoadedRequestCount(0)
  /\ time \in 0 .. MaxStart
  /\ scroll = [pc |-> "check", waitTime |-> 0, scrollCount |-> 0,
               stagnantScrolls |-> 0, performed |-> <<>>]
  /\ visit = [pc |-> "idle"]
  /\ submission = [pc |-> "idle"]
  /\ flt = [pc |-> "idle"]
  /\ RestIdle

\* while (scrollCount < maxScrolls && stagnantScrolls < maxStagnant):
\* const waitTime = checkRateLimit()
ScrollCheck ==
  LET checked == CheckRateLimit(requestCount, time) IN
  /\ scroll.pc = "check"
  /\ requestCount' = checked.requestCount
  /\ scroll' = [scroll EXCEPT !.waitTime = checked.waitTime,
                  !.pc = IF checked.waitTime > 0 THEN "sleep" ELSE "scroll"]
  /\ UNCHANGED <<rest, jobVars, time, visit, submission, flt>>

\* if (waitTime > 0) await setTimeout(waitTime)
ScrollSleep ==
  /\ scroll.pc = "sleep"
  /\ time' = time + scroll.waitTime
  /\ scroll' = [scroll EXCEPT !.pc = "scroll"]
  /\ UNCHANGED <<rest, jobVars, requestCount, visit, submission, flt>>

\* The count of loaded posts is compared with the previous one, then
\* window.scrollBy is evaluated on the page.
ScrollBy ==
  /\ scroll.pc = "scroll"
  /\ \E grew \in BOOLEAN :
       scroll' = [scroll EXCEPT
                    !.pc = "delay",
                    !.stagnantScrolls = IF grew THEN 0 ELSE @ + 1,
                    !.performed = Append(@, time)]
  /\ UNCHANGED <<rest, jobVars, requestCount, time, visit, submission, flt>>

\* await setTimeout(RATE_LIMITS.SCROLL_DELAY); scrollCount++
ScrollWait ==
  /\ scroll.pc = "delay"
  /\ time' = time + SCROLL_DELAY
  /\ scroll' = [scroll EXCEPT
                  !.scrollCount = @ + 1,
                  !.pc = IF scroll.scrollCount + 1 < MaxScrolls
                            /\ scroll.stagnantScrolls < MaxStagnant
                           THEN "check" ELSE "done"]
  /\ UNCHANGED <<rest, jobVars, requestCount, visit, submission, flt>>

NextScroll ==
  \/ ScrollCheck
  \/ ScrollSleep
  \/ ScrollBy
  \/ ScrollWait

SpecScroll == InitScroll /\ [][NextScroll]_vars

\* --------------------------- externally visible actions of a handler run
\* The sites of a handler that call checkRateLimit.
CheckSites == {"searchCheck", "scrollCheck", "commentCheck"}

\* The sites that navigate, scroll or submit a reply.
ActionSites ==
  {"sessionGoto", "searchGoto", "scrollBy", "feedGoto", "feedScroll",
   "commentGoto", "submit"}

\* The sites that can follow a site in the handler of commentWorker.js:
\* login check, keyword pass, fallback feed pass, comment loop.
CommentWorkerSucc(site) ==
  CASE site = "start" -> {"sessionGoto"}
    [] site = "sessionGoto" -> {"searchCheck", "feedGoto"}
    [] site = "searchCheck" -> {"searchGoto"}
    [] site = "searchGoto" -> {"scrollCheck"}
    [] site = "scrollCheck" -> {"scrollBy"}
    [] site = "scrollBy" ->
         {"scrollCheck", "searchCheck", "feedGoto", "commentCheck", "done"}
    [] site = "feedGoto" -> {"feedScroll"}
    [] site = "feedScroll" -> {"feedScroll", "commentCheck", "done"}
    [] site = "commentCheck" -> {"commentGoto"}
    [] site = "commentGoto" -> {"submit"}
    [] site = "submit" -> {"commentCheck", "done"}
    [] OTHER -> {}

\* The same for linkedPostRefinementWorker.js, which has no rate governor
\* and no fallback feed pass.
RefinementSucc(site) ==
  CASE site = "start" -> {"sessionGoto"}
    [] site = "sessionGoto" -> {"searchGoto"}
    [] site = "searchGoto" -> {"scrollBy"}
    [] site = "scrollBy" -> {"scrollBy", "searchGoto", "commentGoto", "done"}
    [] site = "commentGoto" -> {"submit"}
    [] site = "submit" -> {"commentGoto", "done"}
    [] OTHER -> {}

Succ(w, site) ==
  IF w = Refinement THEN RefinementSucc(site) ELSE CommentWorkerSucc(site)

\* The sites that one run passes.
MaxVisitSteps == 12

InitVisit ==
  /\ InitJobs
  /\ requestCount = NoRequests
  /\ time = 0
  /\ scroll = [pc |-> "idle"]
  /\ visit \in {[pc |-> "run", worker |-> w, site |-> "start",
                 guarded |-> FALSE, steps |-> 0] : w \in Workers}
  /\ submission = [pc |-> "idle"]
  /\ flt = [pc |-> "idle"]
  /\ RestIdle

\* The run reaches site next; guarded tells whether the site passed just
\* before it was a call of checkRateLimit.
VisitTo(next) ==
  /\ visit.pc = "run"
  /\ visit.steps < MaxVisitSteps
  /\ next \in Succ(visit.worker, visit.site)
  /\ visit' = [visit EXCEPT !.site = next, !.steps = @ + 1,
                 !.guarded = visit.site \in CheckSites]
  /\ UNCHANGED <<rest, jobVars, requestCount, time, scroll, submission, flt>>

VisitCheck == \E next \in CheckSites : VisitTo(next)

VisitAction == \E next \in ActionSites : VisitTo(next)

VisitDone ==
  /\ visit.pc = "run"
  /\ "done" \in Succ(visit.worker, visit.site)
  /\ visit' = [visit EXCEPT !.pc = "done"]
  /\ UNCHANGED <<rest, jobVars, requestCount, time, scroll, submission, flt>>

NextVisit ==
  \/ VisitCheck
  \/ VisitAction
  \/ VisitDone

SpecVisit == InitVisit /\ [][NextVisit]_vars

\* ----------------------------- comment loop of commentWorker.js, throttling
\* Waits are in seconds.
RetryStep == 30
MaxRetries == 3
BackoffCap == 60
COMMENT_DELAY == 45
ThrottlePause == 60

\* The items of the comment loop: Math.min(filteredPosts.length, maxComments).
MaxItems == 3

Msg429 == "net::ERR_HTTP_RESPONSE_CODE_FAILURE 429"
MsgTooManyRequests == "Too Many Requests"
MsgNoButton == "Comment button not found"
MsgRateLimit == "Rate limit encountered while posting comment"
MsgRecoveryFailed == "Rate limit recovery failed after 3 attempts"

\* error.message.includes('429') || error.message.includes('Too Many Requests')
IsThrottle(message) == message \in {Msg429, MsgTooManyRequests}

RECURSIVE Pow2(_)
Pow2(n) == IF n = 0 THEN 1 ELSE 2 * Pow2(n - 1)

\* The test of the comment loop's catch block: error.message.includes('429')
\* || includes('Too Many Requests') || includes('Rate limit')
MentionsRateLimit(message) ==
  message \in {Msg429, MsgTooManyRequests, MsgRateLimit, MsgRecoveryFailed}

\* waitWithBackoff: Math.min(baseDelay * Math.pow(2, attempt), 60000)
WaitWithBackoff(baseDelay, attempt) ==
  Min(baseDelay * Pow2(attempt), BackoffCap)

\* handleRateLimitError: const waitTime = (attempt + 1) * 30000
RecoveryWait(attempt) == (attempt + 1) * RetryStep

Items == 1 .. MaxItems

InitSubmission ==
  /\ InitJobs
  /\ requestCount = NoRequests
  /\ time = 0
  /\ scroll = [pc |-> "idle"]
  /\ visit = [pc |-> "idle"]
  /\ submission =
       [pc |-> "post", i |-> 1, error |-> NoError, attempt |-> 0,
        waits |-> <<>>, reloads |-> 0,
        tries |-> [x \in Items |-> 0],
        recovered |-> [x \in Items |-> FALSE],
        marked |-> [x \in Items |-> 0],
        failed |-> [x \in Items |-> 0],
        slept |-> [x \in Items |-> 0],
        commentedCount |-> 0, failedCount |-> 0]
  /\ flt = [pc |-> "idle"]
  /\ RestIdle

\* The loop goes on to the next item, or ends.
NextItem(sub) ==
  [sub EXCEPT !.i = @ + 1,
              !.pc = IF sub.i < MaxItems THEN "post" ELSE "done"]

\* postCommentOnPost: navigate to the item and submit the reply.  The try
\* block resolves, or throws into the function's catch block, where
\* handleRateLimitError looks at the message.
PostCommentOnPost ==
  LET x == submission.i IN
  /\ submission.pc = "post"
  /\ \/ submission' = [submission EXCEPT !.tries[x] = @ + 1, !.pc = "mark"]
     \/ \E message \in {Msg429, MsgTooManyRequests, MsgNoButton} :
          submission' =
            [submission EXCEPT
               !.tries[x] = @ + 1, !.error = message, !.attempt = 0,
               !.waits = <<>>, !.reloads = 0,
               !.pc = IF IsThrottle(message) THEN "backoff" ELSE "catch"]
  /\ UNCHANGED <<rest, jobVars, requestCount, time, scroll, visit, flt>>

\* handleRateLimitError: the wait before recovery attempt number attempt.
Backoff ==
  /\ submission.pc = "backoff"
  /\ submission' = [submission EXCEPT
                      !.waits = Append(@, RecoveryWait(submission.attempt)),
                      !.pc = "reload"]
  /\ UNCHANGED <<rest, jobVars, requestCount, time, scroll, visit, flt>>

\* handleRateLimitError: page.reload.  When it resolves the function returns
\* true and postCommentOnPost throws MsgRateLimit; when the last one rejects
\* the function throws MsgRecoveryFailed.
Reload ==
  LET x == submission.i IN
  /\ submission.pc = "reload"
  /\ \/ submission' = [submission EXCEPT
                         !.reloads = @ + 1, !.recovered[x] = TRUE,
                         !.error = MsgRateLimit, !.pc = "catch"]
     \/ submission' =
          IF submission.attempt = MaxRetries - 1
            THEN [submission EXCEPT !.reloads = @ + 1,
                    !.error = MsgRecoveryFailed, !.pc = "catch"]
            ELSE [submission EXCEPT !.reloads = @ + 1, !.attempt = @ + 1,
                    !.pc = "backoff"]
  /\ UNCHANGED <<rest, jobVars, requestCount, time, scroll, visit, flt>>

\* The comment loop after postCommentOnPost resolved: Post.findOneAndUpdate,
\* commentedCount++ and the sleep of RATE_LIMITS.COMMENT_DELAY.
SubmissionMarked ==
  LET x == submission.i IN
  /\ submission.pc = "mark"
  /\ submission' = NextItem([submission EXCEPT !.marked[x] = @ + 1,
                               !.commentedCount = @ + 1,
                               !.slept[x] = @ + COMMENT_DELAY])
  /\ UNCHANGED <<rest, jobVars, requestCount, time, scroll, visit, flt>>

\* The catch block of the comment loop: a pause of one minute when the
\* message mentions the rate limit, and failedCount++.
SubmissionFailed ==
  LET x == submission.i IN
  /\ submission.pc = "catch"
  /\ submission' =
       NextItem([submission EXCEPT
                   !.failed[x] = @ + 1, !.failedCount = @ + 1,
                   !.slept[x] = IF MentionsRateLimit(submission.error)
                                  THEN @ + ThrottlePause ELSE @])
  /\ UNCHANGED <<rest, jobVars, requestCount, time, scroll, visit, flt>>

NextSubmission ==
  \/ PostCommentOnPost
  \/ Backoff
  \/ Reload
  \/ SubmissionMarked
  \/ SubmissionFailed

SpecSubmission == InitSubmission /\ [][NextSubmission]_vars

\* ------------------------------------------------- filters and ranking
\* The longest list of scraped posts.
MaxPosts == 3

MinContentLength == 30
ScrapeFloor == 5

\* A scraped post: its position in the scraped list, its counts and its
\* content.  A "job" content holds a stop word, a "short" one has fewer than
\* MinContentLength characters.
ReactionInputs == {3, 7, 12}
CommentInputs == {0, 5}
ContentInputs == {"ok", "job", "short"}
MinReactionsInputs == {5, 10}

PostData == [reactions : ReactionInputs, comments : CommentInputs,
             content : ContentInputs]

OptionInputs == [minReactions : MinReactionsInputs, excludeJobPosts : BOOLEAN]

\* The lists of n scraped posts, each post tagged with its position.
ScrapedLists(n) ==
  {[k \in 1 .. n |->
      [idx |-> k, reactions |-> d[k].reactions,
       comments |-> d[k].comments, content |-> d[k].content]] :
   d \in [1 .. n -> PostData]}

\* isExcludedPost(post.text || post.content)
IsExcludedPost(content) == content = "job"

\* content.length
ContentLength(content) ==
  IF content = "short" THEN MinContentLength - 1 ELSE MinContentLength

\* (a.reactions || 0) + (a.comments || 0)
Score(post) == post.reactions + post.comments

\* A sort that puts a post ahead of the posts with its own score.
InsertByScoreUnstable(sorted, post) ==
  LET ahead == {k \in 1 .. Len(sorted) : Score(sorted[k]) > Score(post)}
      n == Cardinality(ahead)
  IN SubSeq(sorted, 1, n) \o <<post>> \o SubSeq(sorted, n + 1, Len(sorted))

\* Array.prototype.sort is stable: a post goes behind the posts of the
\* sorted list whose score is not below its own.
InsertByScore(sorted, post) ==
  LET ahead == {k \in 1 .. Len(sorted) : Score(sorted[k]) >= Score(post)}
      n == Cardinality(ahead)
  IN SubSeq(sorted, 1, n) \o <<post>> \o SubSeq(sorted, n + 1, Len(sorted))

\* posts.sort((a, b) => bScore - aScore)
RECURSIVE RankPosts(_)
RankPosts(list) ==
  IF list = <<>> THEN <<>>
  ELSE InsertByScore(RankPosts(SubSeq(list, 1, Len(list) - 1)),
                     list[Len(list)])

\* filterPosts(posts, options)
FilterPosts(list, options) ==
  LET engaged == SelectSeq(list,
                   LAMBDA post : post.reactions >= options.minReactions)
      kept == IF options.excludeJobPosts
                THEN SelectSeq(engaged,
                       LAMBDA post : ~IsExcludedPost(post.content))
                ELSE engaged
      long == SelectSeq(kept,
                LAMBDA post : ContentLength(post.content) >= MinContentLength)
  IN RankPosts(long)

\* the caller's array after a sort applied to the argument itself, as
\* rankPosts(posts) does
ArgumentSortedInPlace(list, options) == RankPosts(list)

\* the caller's array after filterPosts(posts, options): filteredPosts is
\* [...posts], every filter makes a new array and the sort acts on the last
ArgumentAfterFilterPosts(list, options) == list

\* A selection that slices the available posts without ranking them.
RefinementSelectionUnranked(list, maxComments) ==
  LET scrapedPosts ==
        SelectSeq(list, LAMBDA post : /\ ~IsExcludedPost(post.content)
                                      /\ ~(post.reactions < ScrapeFloor))
  IN SubSeq(scrapedPosts, 1, Min(Len(scrapedPosts), maxComments))

\* linkedPostRefinementWorker.js: the posts that pass the scrape-time rules,
\* ranked, and the first maxComments of them.
RefinementSelection(list, maxComments) ==
  LET scrapedPosts ==
        SelectSeq(list, LAMBDA post : /\ ~IsExcludedPost(post.content)
                                      /\ ~(post.reactions < ScrapeFloor))
      rankedPosts == RankPosts(scrapedPosts)
  IN SubSeq(rankedPosts, 1, Min(Len(rankedPosts), maxComments))

\* commentWorker.js: the first Math.min(filteredPosts.length, maxComments)
\* items of filterPosts(scrapedPosts, options).
CommentWorkerSelection(list, options, maxComments) ==
  LET filteredPosts == FilterPosts(list, options)
  IN SubSeq(filteredPosts, 1, Min(Len(filteredPosts), maxComments))

InitFilter ==
  /\ InitJobs
  /\ RestIdle
  /\ requestCount = NoRequests
  /\ time = 0
  /\ scroll = [pc |-> "idle"]
  /\ visit = [pc |-> "idle"]
  /\ submission = [pc |-> "idle"]
  /\ \E n \in 0 .. MaxPosts :
       flt \in {[pc |-> "scraped", posts |-> list, given |-> list,
                 options |-> o, once |-> <<>>, twice |-> <<>>,
                 selected |-> <<>>, worker |-> NoWorker,
                 maxComments |-> 0] :
                list \in ScrapedLists(n), o \in OptionInputs}

\* filterPosts applied to the scraped list.
FilterOnce ==
  /\ flt.pc = "scraped"
  /\ flt' = [flt EXCEPT !.pc = "once",
               !.once = FilterPosts(flt.posts, flt.options),
               !.posts = ArgumentAfterFilterPosts(@, flt.options)]
  /\ UNCHANGED <<rest, jobVars, requestCount, time, scroll, visit, submission>>

\* filterPosts applied to its own result.
FilterTwice ==
  /\ flt.pc = "once"
  /\ flt' = [flt EXCEPT !.pc = "twice",
               !.twice = FilterPosts(flt.once, flt.options),
               !.once = ArgumentAfterFilterPosts(@, flt.options)]
  /\ UNCHANGED <<rest, jobVars, requestCount, time, scroll, visit, submission>>

\* The handler of worker w selects the posts to reply to, for a job asking
\* for maxComments replies.
SelectForAction(w, maxComments) ==
  /\ flt.pc = "scraped"
  /\ flt' = [flt EXCEPT
               !.pc = "selected", !.worker = w, !.maxComments = maxComments,
               !.selected =
                 IF w = Refinement
                   THEN RefinementSelection(flt.posts, maxComments)
                   ELSE CommentWorkerSelection(flt.posts, flt.options,
                                               maxComments)]
  /\ UNCHANGED <<rest, jobVars, requestCount, time, scroll, visit, submission>>

NextFilter ==
  \/ FilterOnce
  \/ FilterTwice
  \/ \E w \in Workers, maxComments \in 1 .. MaxPosts :
       SelectForAction(w, maxComments)

SpecFilter == InitFilter /\ [][NextFilter]_vars

\* ------------------------------------------------- shutdown of the process
\* The listeners of SIGTERM and SIGINT in the process started by
\* startLinkedPostRefinementWorker.js: the one registered by the worker module
\* and gracefulShutdown of the start script.
Listeners == {"worker", "start"}

Signals == {"SIGTERM", "SIGINT"}

InitShutdown ==
  /\ InitJobs
  /\ requestCount = NoRequests
  /\ time = 0
  /\ scroll = [pc |-> "idle"]
  /\ visit = [pc |-> "idle"]
  /\ submission = [pc |-> "idle"]
  /\ flt = [pc |-> "idle"]
  /\ api = [pc |-> "idle"]
  /\ proc = [pc |-> "running", handler |-> "idle", commentedCount |-> 0,
             signal |-> "none", listener |-> [l \in Listeners |-> "idle"],
             code |-> 0]
  /\ scrape = [pc |-> "idle"]
  /\ rate = [pc |-> "idle"]

ProcFrame ==
  /\ UNCHANGED jobVars
  /\ UNCHANGED <<requestCount, time, scroll, visit, submission, flt, api,
                 scrape, rate>>

\* process.exit(code)
Exit(code) == [proc EXCEPT !.pc = "exited", !.code = code]

\* The worker takes a job from the queue, unless it is closing.
TakeJob ==
  /\ proc.pc = "running"
  /\ proc.handler = "idle"
  /\ proc.signal = "none"
  /\ proc' = [proc EXCEPT !.handler = "running", !.commentedCount = 0]
  /\ ProcFrame

\* The handler types a reply for the next item of its comment loop and clicks
\* the submit button.
StartSubmission ==
  /\ proc.pc = "running"
  /\ proc.handler = "running"
  /\ proc.commentedCount < MaxItems
  /\ proc' = [proc EXCEPT !.handler = "submitting"]
  /\ ProcFrame

EndSubmission ==
  /\ proc.pc = "running"
  /\ proc.handler = "submitting"
  /\ proc' = [proc EXCEPT !.handler = "running", !.commentedCount = @ + 1]
  /\ ProcFrame

\* The handler returns or throws.
HandlerSettles ==
  /\ proc.pc = "running"
  /\ proc.handler = "running"
  /\ proc' = [proc EXCEPT !.handler = "idle"]
  /\ ProcFrame

\* The process receives a signal: both listeners call worker.close().
Signal(sig) ==
  /\ proc.pc = "running"
  /\ proc.signal = "none"
  /\ proc' = [proc EXCEPT !.signal = sig,
                          !.listener = [l \in Listeners |-> "close"]]
  /\ ProcFrame

\* A rejection inside listener l.  gracefulShutdown catches it and calls
\* process.exit(1); the listener of the worker module does not catch it, and
\* the unhandledRejection listener of that module takes over.
Rejected(l) ==
  IF l = "start" THEN Exit(1)
  ELSE [proc EXCEPT !.listener[l] = "emergency"]

\* await worker.close(): resolves once the handler in flight has settled, or
\* rejects.
Close(l) ==
  /\ proc.pc = "running"
  /\ proc.listener[l] = "close"
  /\ \/ /\ proc.handler = "idle"
        /\ proc' = [proc EXCEPT !.listener[l] = "release"]
     \/ proc' = Rejected(l)
  /\ ProcFrame

\* await redis.quit() (worker module) or await mongoose.connection.close()
\* (start script), then process.exit(0).
Release(l) ==
  /\ proc.pc = "running"
  /\ proc.listener[l] = "release"
  /\ \/ proc' = Exit(0)
     \/ proc' = Rejected(l)
  /\ ProcFrame

\* process.on('unhandledRejection') of the worker module: worker.close() and
\* redis.quit() inside try/catch, resolved or rejected, then process.exit(1).
Emergency(l) ==
  /\ proc.pc = "running"
  /\ proc.listener[l] = "emergency"
  /\ proc' = Exit(1)
  /\ ProcFrame

NextShutdown ==
  \/ TakeJob
  \/ StartSubmission
  \/ EndSubmission
  \/ HandlerSettles
  \/ \E sig \in Signals : Signal(sig)
  \/ \E l \in Listeners : Close(l)
  \/ \E l \in Listeners : Release(l)
  \/ \E l \in Listeners : Emergency(l)

SpecShutdown == InitShutdown /\ [][NextShutdown]_vars

\* ------------------------------------ scraping pass of commentWorker.js
\* One run of the scraping part of the handler: the keywords in order, for
\* each the load-more loop and then the posts of the result page, and the
\* feed fallback with its own load-more loop around the posts of the feed.
MaxRequested == 2
MaxKeywords == 2
MaxPagePosts == 2

FeedMaxScrolls == 30
FeedMaxStagnant == 5

\* what the page reports as its count of posts: equal to the previous
\* count or not
PostsCountInputs == {0, 1}

\* what page.evaluate reads of one post element
PostDataInputs ==
  [content : {"ok", "job"}, reactions : {3, 7}]

MaxScrollsOf(pass) == IF pass = "feed" THEN FeedMaxScrolls ELSE MaxScrolls
MaxStagnantOf(pass) == IF pass = "feed" THEN FeedMaxStagnant ELSE MaxStagnant

\* the condition of the while loop
LoopCondition(s) ==
  /\ s.scrollCount < MaxScrollsOf(s.pass)
  /\ s.stagnantScrolls < MaxStagnantOf(s.pass)
  /\ s.pass = "feed" => s.gathered < s.target

\* stagnantScrolls after one comparison: never counted
StagnantNeverCounted(stagnantScrolls, postsCount, previousHeight) == 0

\* stagnantScrolls after the comparison of postsCount with previousHeight
Stagnant(stagnantScrolls, postsCount, previousHeight) ==
  IF postsCount = previousHeight THEN stagnantScrolls + 1 ELSE 0

\* the two continue statements before getPostUrl: without the reactions one
PassesScrapeRulesNoFloor(postData) == ~IsExcludedPost(postData.content)

\* the two continue statements before getPostUrl
PassesScrapeRules(postData) ==
  /\ ~IsExcludedPost(postData.content)
  /\ ~(postData.reactions < ScrapeFloor)

\* the outcomes of the comparisons made after the last one that saw the
\* count of posts grow, newest last
SinceGrowth(seq, same) == IF same THEN Append(seq, same) ELSE <<>>

NoPostData == [content |-> "none", reactions |-> 0]

FreshLoop(s, pass) ==
  [s EXCEPT !.pass = pass, !.scrollCount = 0, !.stagnantScrolls = 0,
            !.previousHeight = 0, !.unchanged = <<>>, !.pc = "scroll"]

InitScrape ==
  /\ InitJobs
  /\ requestCount = NoRequests
  /\ time = 0
  /\ scroll = [pc |-> "idle"]
  /\ visit = [pc |-> "idle"]
  /\ submission = [pc |-> "idle"]
  /\ flt = [pc |-> "idle"]
  /\ api = [pc |-> "idle"]
  /\ proc = [pc |-> "idle"]
  /\ rate = [pc |-> "idle"]
  /\ \E maxComments \in 1 .. MaxRequested, n \in 1 .. MaxKeywords :
       scrape = [pc |-> "keywords", maxComments |-> maxComments,
                 target |-> ScrapeTarget(maxComments), keywords |-> n,
                 searched |-> <<>>, pass |-> "keyword", scrollCount |-> 0,
                 stagnantScrolls |-> 0, previousHeight |-> 0,
                 unchanged |-> <<>>, elements |-> 0,
                 postData |-> NoPostData, gathered |-> 0,
                 totalPostsScraped |-> 0, filteredPosts |-> 0,
                 fallback |-> FALSE]

ScrapeFrame ==
  /\ UNCHANGED jobVars
  /\ UNCHANGED <<requestCount, time, scroll, visit, submission, flt, api,
                 proc, rate>>

\* top of for (const keyword of keywords): the break at the target, the
\* search of the next keyword, or its catch that continues with the next one
NextKeyword ==
  /\ scrape.pc = "keywords"
  /\ IF \/ Len(scrape.searched) = scrape.keywords
        \/ scrape.totalPostsScraped >= scrape.target
     THEN scrape' = [scrape EXCEPT !.pc = "fallback"]
     ELSE LET s == [scrape EXCEPT
                      !.searched = Append(@, Len(@) + 1)]
          IN  \/ scrape' = FreshLoop(s, "keyword")
              \/ scrape' = s
  /\ ScrapeFrame

\* top of the while loop of the current pass
LoopTest ==
  /\ scrape.pc = "scroll"
  /\ scrape' =
       [scrape EXCEPT
          !.pc = IF LoopCondition(scrape) THEN "body"
                 ELSE IF scrape.pass = "feed" THEN "done" ELSE "extract"]
  /\ ScrapeFrame

\* the count of posts on the page is compared with the previous one, the page
\* is scrolled, scrollCount++
LoadMore ==
  /\ \/ scrape.pass = "keyword" /\ scrape.pc = "body"
     \/ scrape.pass = "feed" /\ scrape.pc = "loadMore"
  /\ \E postsCount \in PostsCountInputs :
       scrape' =
         [scrape EXCEPT
            !.stagnantScrolls = Stagnant(@, postsCount,
                                         scrape.previousHeight),
            !.unchanged = SinceGrowth(@, postsCount =
                                           scrape.previousHeight),
            !.previousHeight = postsCount,
            !.scrollCount = @ + 1,
            !.pc = "scroll"]
  /\ ScrapeFrame

\* page.$$ of the post elements; elements counts those of the list that the
\* for loop has not visited yet
Extract ==
  /\ \/ scrape.pass = "keyword" /\ scrape.pc = "extract"
     \/ scrape.pass = "feed" /\ scrape.pc = "body"
  /\ \E elements \in 0 .. MaxPagePosts :
       scrape' = [scrape EXCEPT !.elements = elements, !.pc = "item"]
  /\ ScrapeFrame

\* the break of the loop over the elements: on totalPostsScraped in the
\* keyword pass, on scrapedPosts.length in the feed pass
TargetReached(s) ==
  IF s.pass = "keyword" THEN s.totalPostsScraped >= s.target
  ELSE s.gathered >= s.target

\* top of the for loop over the elements: the break at the target, the end
\* of the list, a detached element, or the data of the element followed by
\* if (isExcludedPost(..)) continue; if (postData.reactions < 5) continue;
Evaluate ==
  /\ scrape.pc = "item"
  /\ IF scrape.elements = 0 \/ TargetReached(scrape)
     THEN scrape' =
            [scrape EXCEPT
               !.postData = NoPostData, !.elements = 0,
               !.pc = IF scrape.pass = "feed" THEN "loadMore"
                      ELSE "keywords"]
     ELSE \/ scrape' = [scrape EXCEPT !.elements = @ - 1,
                                       !.postData = NoPostData]
          \/ \E postData \in PostDataInputs :
               scrape' =
                 IF PassesScrapeRules(postData)
                 THEN [scrape EXCEPT !.postData = postData,
                                     !.pc = "getPostUrl"]
                 ELSE [scrape EXCEPT !.postData = postData,
                                     !.elements = @ - 1]
  /\ ScrapeFrame

\* await getPostUrl(page, postElement), and the push when it found a URL
GetPostUrl ==
  /\ scrape.pc = "getPostUrl"
  /\ \E postUrl \in BOOLEAN :
       scrape' =
         [scrape EXCEPT
            !.gathered = IF postUrl THEN @ + 1 ELSE @,
            !.totalPostsScraped =
              IF postUrl /\ scrape.pass = "keyword" THEN @ + 1 ELSE @,
            !.elements = @ - 1, !.postData = NoPostData, !.pc = "item"]
  /\ ScrapeFrame

\* if (scrapedPosts.length < SCRAPE_TARGET): the feed pass, or its catch
Fallback ==
  /\ scrape.pc = "fallback"
  /\ IF scrape.gathered < scrape.target
     THEN LET s == [scrape EXCEPT !.fallback = TRUE]
          IN  \/ scrape' = FreshLoop(s, "feed")
              \/ scrape' = [FreshLoop(s, "feed") EXCEPT !.pc = "done"]
     ELSE scrape' = [scrape EXCEPT !.pc = "done"]
  /\ ScrapeFrame

\* the state after the catch block of the outermost try of the pass: the
\* keyword's catch continues with the next keyword, the fallback's catch ends
\* the pass
CatchOfPass(s) ==
  IF s.pass = "keyword"
  THEN [s EXCEPT !.elements = 0, !.postData = NoPostData,
                 !.pc = "keywords"]
  ELSE [s EXCEPT !.elements = 0, !.postData = NoPostData,
                 !.pc = "done"]

\* the state after an error when no try surrounded the element
ScrapeCatchOutermost(s) == CatchOfPass(s)

\* the state after the catch block of the innermost try around the position:
\* the catch of the element continues with the next element
ScrapeCatch(s) ==
  IF s.pc \in {"item", "getPostUrl"}
  THEN [s EXCEPT !.elements = @ - 1, !.pc = "item"]
  ELSE CatchOfPass(s)

\* an await of the pass rejects: page.evaluate or scrollBy of the loop,
\* page.$$, page.evaluate of an element, getPostUrl
ScrapeError ==
  /\ \/ scrape.pc \in {"body", "extract", "loadMore", "getPostUrl"}
     \/ /\ scrape.pc = "item"
        /\ scrape.elements > 0
        /\ ~TargetReached(scrape)
  /\ scrape' = ScrapeCatch(scrape)
  /\ ScrapeFrame

\* const filteredPosts = filterPosts(scrapedPosts, options): a sub-list of
\* the scraped posts, whose length the report carries beside
\* totalPostsScraped
FilterScraped ==
  /\ scrape.pc = "done"
  /\ \E filteredPosts \in 0 .. scrape.gathered :
       scrape' = [FreshLoop(scrape, scrape.pass) EXCEPT
                    !.filteredPosts = filteredPosts, !.pc = "filtered"]
  /\ ScrapeFrame

NextScrape ==
  \/ FilterScraped
  \/ ScrapeError
  \/ NextKeyword
  \/ LoopTest
  \/ LoadMore
  \/ Extract
  \/ Evaluate
  \/ GetPostUrl
  \/ Fallback

SpecScrape == InitScrape /\ [][NextScrape]_vars

\* ------------------------------------ checkRateLimit and its callers
\* The latest time, in units of 10 s, at which time passes between two calls
\* or a caller goes to sleep.
MaxTime == 70

\* The module is loaded at time 0.
InitRate ==
  /\ InitJobs
  /\ requestCount = LoadedRequestCount(0)
  /\ time = 0
  /\ scroll = [pc |-> "idle"]
  /\ visit = [pc |-> "idle"]
  /\ submission = [pc |-> "idle"]
  /\ flt = [pc |-> "idle"]
  /\ api = [pc |-> "idle"]
  /\ proc = [pc |-> "idle"]
  /\ scrape = [pc |-> "idle"]
  /\ rate = [pc |-> "ready", waitTime |-> 0]

RateFrame ==
  /\ UNCHANGED jobVars
  /\ UNCHANGED <<scroll, visit, submission, flt, api, proc, scrape>>

\* Time passes before the next call.
TimePasses ==
  /\ rate.pc = "ready"
  /\ time < MaxTime
  /\ time' = time + 1
  /\ UNCHANGED <<requestCount, rate>>
  /\ RateFrame

\* const waitTime = checkRateLimit()
CallCheckRateLimit ==
  LET checked == CheckRateLimit(requestCount, time) IN
  /\ rate.pc = "ready"
  /\ requestCount' = checked.requestCount
  /\ rate' = [pc |-> "returned", waitTime |-> checked.waitTime]
  /\ UNCHANGED time
  /\ RateFrame

\* if (waitTime > 0) await new Promise((resolve) => setTimeout(resolve,
\* waitTime)): the timer fires at its time or later; then the request is made
AfterCheck ==
  /\ rate.pc = "returned"
  /\ IF rate.waitTime > 0
     THEN /\ time <= MaxTime
          /\ \E late \in 0 .. 1 : time' = time + rate.waitTime + late
     ELSE UNCHANGED time
  /\ rate' = [pc |-> "ready", waitTime |-> 0]
  /\ UNCHANGED requestCount
  /\ RateFrame

NextRate ==
  \/ TimePasses
  \/ CallCheckRateLimit
  \/ AfterCheck

SpecRate == InitRate /\ [][NextRate]_vars

\* ------------- gathered posts by URL (linkedPostRefinementWorker.js)
\* The run of the handler from the scrape to the comment loop, with the URL
\* of every post that getPostUrl resolved.  The posts have equal scores, so
\* that rankPosts keeps the order in which they were gathered.
PostUrlInputs == 1 .. MaxPagePosts

InitGather ==
  /\ InitJobs
  /\ requestCount = NoRequests
  /\ time = 0
  /\ scroll = [pc |-> "idle"]
  /\ visit = [pc |-> "idle"]
  /\ submission = [pc |-> "idle"]
  /\ flt = [pc |-> "idle"]
  /\ api = [pc |-> "idle"]
  /\ proc = [pc |-> "idle"]
  /\ rate = [pc |-> "idle"]
  /\ \E existingPostUrls \in SUBSET PostUrlInputs,
        maxComments \in 1 .. MaxRequested :
       scrape = [pc |-> "keywords", existingPostUrls |-> existingPostUrls,
                 maxComments |-> maxComments, keyword |-> 1,
                 page |-> {}, scrapedPosts |-> <<>>, postsForCommenting |-> <<>>,
                 i |-> 0, replies |-> [x \in PostUrlInputs |-> 0]]

\* for (const keyword of TARGET_KEYWORDS): the next keyword
GatherNextKeyword ==
  /\ scrape.pc = "keywords"
  /\ scrape.keyword < MaxKeywords
  /\ scrape' = [scrape EXCEPT !.keyword = @ + 1, !.page = {}]
  /\ ScrapeFrame

\* A post of the result page of the keyword, which lists a post once, passed
\* the rules and getPostUrl resolved it: skipped when existingPostUrls holds
\* the URL, pushed otherwise.
PushScrapedPost(postUrl) ==
  /\ scrape.pc = "keywords"
  /\ Len(scrape.scrapedPosts) < ScrapeTarget(scrape.maxComments)
  /\ postUrl \notin scrape.page
  /\ postUrl \notin scrape.existingPostUrls
  /\ scrape' = [scrape EXCEPT !.scrapedPosts = Append(@, postUrl),
                              !.page = @ \cup {postUrl}]
  /\ ScrapeFrame

\* The posts are inserted (a duplicate key is tolerated) and the selection
\* is made: commentedPostUrls is read from the documents of this job and
\* user, which are those of existingPostUrls and the ones just inserted.
SelectScrapedPosts ==
  /\ scrape.pc = "keywords"
  /\ \E commentedPostUrls \in SUBSET scrape.existingPostUrls :
       scrape' = [scrape EXCEPT
                    !.pc = "act", !.i = 1,
                    !.postsForCommenting =
                      PostsForCommenting(scrape.scrapedPosts,
                                         commentedPostUrls,
                                         scrape.maxComments)]
  /\ ScrapeFrame

\* One turn of for (const post of postsForCommenting): the reply is
\* submitted, or the turn fails.
ReplyToPost ==
  /\ scrape.pc = "act"
  /\ scrape.i <= Len(scrape.postsForCommenting)
  /\ \/ scrape' = [scrape EXCEPT
                     !.replies[scrape.postsForCommenting[scrape.i]] = @ + 1,
                     !.i = @ + 1]
     \/ scrape' = [scrape EXCEPT !.i = @ + 1]
  /\ ScrapeFrame

NextGather ==
  \/ GatherNextKeyword
  \/ \E postUrl \in PostUrlInputs : PushScrapedPost(postUrl)
  \/ SelectScrapedPosts
  \/ ReplyToPost

SpecGather == InitGather /\ [][NextGather]_vars

\* ------------------------------------------------------------------ claims
Terminal == {"completed", "permanently_failed"}

\* The pcs of a run that has passed the entry guards.
PastGuards == PipelinePcs \cup {"setActive", "catch", "errorReport"}

\* C1: once a job's persisted status is completed or permanently_failed, no
\* later step changes that status: a handler that a later delivery starts
\* never sets it back to active or failed.
TerminalStateInvariant ==
  [][\A j \in Jobs :
       (Exists(jobs[j]) /\ jobs[j].status \in Terminal /\ wk' # wk)
         => jobs'[j].status = jobs[j].status]_vars

\* C2: for any (URL, user) pair at most one reply is ever submitted, across
\* the jobs and the retried runs of that user.
NoDoubleActing == \A k \in PostKeys : submitted[k] <= 1

\* C3: of the invocations that a duplicated delivery of one job starts, at
\* most one passes the entry guards and executes the pipeline.
DuplicateDeliveryIsSafe ==
  \A v, w \in Workers :
    (v # w /\ wk[v].jobId # 0 /\ wk[v].jobId = wk[w].jobId)
      => ~(wk[v].pc \in PastGuards /\ wk[w].pc \in PastGuards)

\* C4: two jobs of the same user are never executing the pipeline at the
\* same time.
PerUserSerialization ==
  \A v, w \in Workers :
    (wk[v].pc \in PipelinePcs /\ wk[w].pc \in PipelinePcs
       /\ wk[v].jobId # wk[w].jobId)
      => UserOf(wk[v].jobId) # UserOf(wk[w].jobId)

\* C5: a handler invoked on a job whose persisted status is active returns
\* without running the pipeline and leaves the Job Store, the Candidate Store
\* and the Session Report Store as they were, the write of the queue's
\* completed callback for that return included.
IdempotencyGuard ==
  [][/\ \A w \in Workers :
          (wk[w].pc = "findById" /\ wk'[w] # wk[w]
             /\ jobs[wk[w].jobId].status = "active")
            => /\ wk'[w].pc = "idle"
               /\ UNCHANGED <<jobs, posts, reports>>
     /\ \A e \in events :
          (e.type = "completed" /\ e.data = RetAlready /\ e \notin events')
            => UNCHANGED <<jobs, posts, reports>>]_vars

\* C6: a handler invoked on a job that completed less than five minutes ago
\* returns without setting the job active, without running a pipeline phase
\* and without creating a Session Report.
CooldownGuard ==
  [][\A w \in Workers :
       (wk[w].pc = "findById" /\ wk'[w] # wk[w]
          /\ CompletedRecently(jobs[wk[w].jobId], clock))
         => /\ wk'[w].pc = "idle"
            /\ UNCHANGED <<jobs, reports>>]_vars

\* C7: a delivery that follows three recorded runs of the failure path does
\* not execute the pipeline.
AttemptBudgetGuard ==
  \A w \in Workers :
    wk[w].pc \in PastGuards => wk[w].priorFailures < MaxFailedAttempts

\* The queue retries job j no more and nothing of j is in flight.
RetriesExhausted(j) ==
  /\ queue[j] = "failed"
  /\ \A w \in Workers : wk[w].jobId # j
  /\ \A e \in events : e.jobId # j

\* C8: a job whose every attempt fails does not remain in status failed once
\* the queue has stopped retrying: its status is permanently_failed.
RetryExhaustion ==
  \A j \in Jobs : RetriesExhausted(j) => jobs[j].status = "permanently_failed"

\* C9: the failure path stores status failed and the error message, raises
\* the persisted failure count by one, creates one Session Report with zero
\* counts and one error entry, and rethrows to the queue.
FailurePath ==
  [][\A w \in Workers :
       LET j == wk[w].jobId IN
       /\ (wk[w].pc = "catch" /\ wk'[w].pc = "errorReport")
            => /\ jobs'[j].status = "failed"
               /\ jobs'[j].error = wk[w].error
               /\ FailedAttemptsOf(jobs'[j]) = FailedAttemptsOf(jobs[j]) + 1
       /\ (wk[w].pc = "errorReport" /\ wk'[w].pc = "idle")
            => /\ reports'[j].count = reports[j].count + 1
               /\ reports'[j].last.commentsPosted = 0
               /\ reports'[j].last.totalPostsScraped = 0
               /\ Len(reports'[j].last.errors) = 1
               /\ reports'[j].last.errors[1].message = wk[w].error
               /\ (lock[j] = w => attemptsMade'[j] = attemptsMade[j] + 1)]_vars

\* C10: a run that passed the entry guards has created exactly one Session
\* Report when it ends, on the success path or on the failure path.
ExactlyOneReport ==
  [][\A w \in Workers :
       LET j == wk[w].jobId IN
       (wk[w].pc \in PastGuards /\ wk'[w].pc = "idle")
         => wk[w].nReports + (reports'[j].count - reports[j].count) = 1]_vars

\* C11: in every attempt the Session Report is created after the write of
\* the attempt's final status (completed or failed).
ReportAfterFinalStatus ==
  [][\A w \in Workers :
       LET j == wk[w].jobId IN
       (j # 0 /\ wk'[w] # wk[w] /\ reports'[j].count > reports[j].count)
         => wk[w].finalStatus # "none"]_vars

\* C12: no handler exit leaves a launched browser open.
BrowserReleased == \A w \in Workers : wk[w].pc = "idle" => ~wk[w].browser

\* The run of worker w selected candidates and acted on none of them.
AllItemsFailed(w) ==
  /\ Len(wk[w].postsForCommenting) > 0
  /\ wk[w].commentedCount = 0

\* C13: a failed submission does not set the job to failed, and when every
\* one of the k selected candidates fails the job ends completed with acted
\* count 0 and failed count k in the job result and in the Session Report.
PerItemFailuresNotFatal ==
  [][\A w \in Workers :
       LET j == wk[w].jobId
           k == Len(wk[w].postsForCommenting)
       IN
       /\ (wk[w].pc = "act" /\ wk'[w] # wk[w])
            => /\ jobs' = jobs
               /\ wk'[w].pc \in {"act", "report"}
       /\ (wk[w].pc = "report" /\ wk'[w] # wk[w] /\ AllItemsFailed(w))
            => /\ wk'[w].pc = "writeCompleted"
               /\ reports'[j].last.commentsPosted = 0
               /\ reports'[j].last.failed = k
       /\ (wk[w].pc = "writeCompleted" /\ wk'[w] # wk[w] /\ AllItemsFailed(w))
            => /\ jobs'[j].status = "completed"
               /\ jobs'[j].result.commentedCount = 0
               /\ jobs'[j].result.failed = k]_vars

\* C13 witness: a job completed with nothing acted on and a failed item.
AllFailedJobCompleted ==
  \E j \in Jobs :
    /\ jobs[j].status = "completed"
    /\ jobs[j].result.commentedCount = 0
    /\ jobs[j].result.failed > 0
    /\ reports[j].last.failed = jobs[j].result.failed

\* C15: a Persist batch that contains a URL already stored for the user skips
\* that item, inserts the other items and does not make the job fail.
TolerantInsert ==
  [][\A w \in Workers :
       LET j == wk[w].jobId
           urls == Range(wk[w].scrapedPosts)
       IN
       (wk[w].pc = "persist" /\ wk'[w] # wk[w]
          /\ \E x \in urls : posts[<<x, UserOf(j)>>] # NoPost)
         => /\ wk'[w].pc # "catch"
            /\ \A x \in urls : posts'[<<x, UserOf(j)>>] # NoPost]_vars

\* The guarded actions performed in the minute that starts at time t.
PerformedInMinute(t) ==
  {k \in 1 .. Len(scroll.performed) :
     t <= scroll.performed[k] /\ scroll.performed[k] < t + MinuteWindow}

\* C16: in any one minute window at most 5 actions guarded by checkRateLimit
\* are performed.
RateBudgetRespected ==
  scroll.pc # "idle" =>
    \A k \in 1 .. Len(scroll.performed) :
      Cardinality(PerformedInMinute(scroll.performed[k]))
        <= MAX_REQUESTS_PER_MINUTE

\* C17: every externally visible action of a handler run (navigation, scroll,
\* reply submission) is immediately preceded by a call of the rate check.
EveryActionChecked ==
  (visit.pc # "idle" /\ visit.site \in ActionSites) => visit.guarded

\* The comment loop has left item x behind.
ItemDone(x) == submission.pc = "done" \/ submission.i > x

\* C14: when the submission to item X is throttled and the backoff and reload
\* recovery succeeds, the submission is attempted again, and X is then marked
\* once without the failed count being increased for X.
ThrottleRecoveryRetries ==
  submission.pc # "idle" =>
    \A x \in Items :
      (submission.recovered[x] /\ ItemDone(x))
        => /\ submission.tries[x] >= 2
           /\ submission.marked[x] = 1 => submission.failed[x] = 0

\* C18: the wait before recovery attempt a is min(base * 2^a, cap), with the
\* base of the first wait and the cap of waitWithBackoff; a reload follows
\* each wait; at most 3 attempts are made; and the terminal error is raised
\* when every reload has failed.
ThrottleBackoff ==
  submission.pc # "idle" =>
    /\ \A a \in 1 .. Len(submission.waits) :
         submission.waits[a] = WaitWithBackoff(RetryStep, a - 1)
    /\ Len(submission.waits) <= MaxRetries
    /\ submission.reloads <= Len(submission.waits)
    /\ submission.error = MsgRecoveryFailed
         => submission.reloads = MaxRetries

\* Posts of equal score keep the order they had in the scraped list.
OrderStable(list) ==
  \A a, b \in 1 .. Len(list) :
    (a < b /\ Score(list[a]) = Score(list[b])) => list[a].idx < list[b].idx

\* C19: filterPosts(filterPosts(posts, o), o) equals filterPosts(posts, o) as
\* a sequence, and surviving posts of equal reactions + comments keep their
\* relative order of the input.
FilterPostsIdempotentStable ==
  flt.pc = "twice" => (flt.twice = flt.once /\ OrderStable(flt.once))

\* C19 witness: a filtered list that dropped a post and holds two distinct
\* posts of equal score, filtered a second time.
FilteredTwiceWithTie ==
  /\ flt.pc = "twice"
  /\ Len(flt.once) < Len(flt.posts)
  /\ \E a, b \in 1 .. Len(flt.once) :
       /\ a < b
       /\ Score(flt.once[a]) = Score(flt.once[b])
       /\ flt.once[a].reactions # flt.once[b].reactions

\* C20: no candidate whose reaction count is below options.minReactions is
\* selected for action.
EngagementThreshold ==
  flt.pc = "selected" =>
    \A k \in 1 .. Len(flt.selected) :
      flt.selected[k].reactions >= flt.options.minReactions

\* The posts of the scraped list that pass the filters of worker w, in the
\* order of their discovery.
Survivors(w) ==
  IF w = Refinement
    THEN SelectSeq(flt.posts, LAMBDA post : /\ ~IsExcludedPost(post.content)
                                            /\ post.reactions >= ScrapeFloor)
    ELSE SelectSeq(flt.posts,
           LAMBDA post :
             /\ post.reactions >= flt.options.minReactions
             /\ flt.options.excludeJobPosts => ~IsExcludedPost(post.content)
             /\ ContentLength(post.content) >= MinContentLength)

\* C21: with N replies requested and S posts surviving the filters, exactly
\* min(N, S) survivors are selected, every selected post scores at least as
\* much as every unselected survivor, the selection is in descending score
\* order, and among posts of equal score the one discovered first comes first
\* (and is the one selected).
TopNSelection ==
  flt.pc = "selected" =>
    LET survivors == Range(Survivors(flt.worker))
        selected == flt.selected
        chosen == Range(selected)
    IN /\ Len(selected) = Min(flt.maxComments, Cardinality(survivors))
       /\ Cardinality(chosen) = Len(selected)
       /\ chosen \subseteq survivors
       /\ \A a \in chosen, b \in survivors \ chosen :
            \/ Score(a) > Score(b)
            \/ Score(a) = Score(b) /\ a.idx < b.idx
       /\ \A a, b \in 1 .. Len(selected) :
            a < b => \/ Score(selected[a]) > Score(selected[b])
                     \/ /\ Score(selected[a]) = Score(selected[b])
                        /\ selected[a].idx < selected[b].idx

\* C21 witness: two posts were selected out of three survivors, the second
\* selected post ties with the unselected one, and the best post was not
\* discovered first.
SelectedTopTwoOfThree ==
  /\ flt.pc = "selected"
  /\ flt.maxComments = 2
  /\ Len(Survivors(flt.worker)) = 3
  /\ Len(flt.selected) = 2
  /\ flt.selected[1].idx # 1
  /\ \E b \in Range(Survivors(flt.worker)) \ Range(flt.selected) :
       Score(b) = Score(flt.selected[2])

\* C22: between the end of the action on one selected item and the start of
\* the action on the next, the handler has slept at least the comment delay,
\* whether the first action succeeded or failed.
InterActionDelay ==
  submission.pc # "idle" =>
    \A x \in Items :
      (x < MaxItems /\ submission.tries[x + 1] > 0)
        => submission.slept[x] >= COMMENT_DELAY

\* C23: while the persisted status of a job stays active, its persisted
\* progress.stepProgress never decreases.
ProgressMonotone ==
  [][\A j \in Jobs :
       (jobs[j].status = "active" /\ jobs'[j].status = "active")
         => jobs'[j].stepProgress >= jobs[j].stepProgress]_vars

\* C24: the failure write of an attempt leaves the persisted progress step
\* name and percent as they were when the failure occurred.
ProgressFreezesOnFailure ==
  [][\A j \in Jobs :
       failures'[j] > failures[j]
         => /\ jobs'[j].currentStep = jobs[j].currentStep
            /\ jobs'[j].stepProgress = jobs[j].stepProgress]_vars

\* C25: after a successful submission for user u on URL x, the Candidate
\* Store document of (x, u) has the acted-upon flag set, also when an earlier
\* job of u inserted it, and the documents of other users for x are unchanged.
MarkingActedUpon ==
  [][\A k \in PostKeys :
       submitted'[k] > submitted[k]
         => /\ posts'[k].isCommented
            /\ \A other \in PostKeys :
                 (other[1] = k[1] /\ other[2] # k[2])
                   => posts'[other] = posts[other]]_vars

Final == {"completed", "failed", "permanently_failed"}

GracefulShutdown ==
  (proc.pc = "exited" /\ proc.signal \in Signals)
    => (proc.code = 0 /\ proc.handler = "idle")

\* C28: during scraping, in the keyword pass and in the feed fallback,
\* getPostUrl is never called for a post whose content contains a stop word
\* or whose reaction count is below 5.
ExclusionBeforeUrl ==
  scrape.pc = "getPostUrl"
    => /\ ~IsExcludedPost(scrape.postData.content)
       /\ scrape.postData.reactions >= ScrapeFloor

\* C28 witness: in the feed fallback a post with fewer than 5 reactions was
\* skipped and the loop is at the next element.
SkippedWithoutUrl ==
  /\ scrape.pc = "item"
  /\ scrape.pass = "feed"
  /\ scrape.postData \in PostDataInputs
  /\ scrape.postData.reactions < ScrapeFloor

\* the last n comparisons, at least, all found the count of posts unchanged
StagnantRun(flags, n) ==
  /\ Len(flags) >= n
  /\ \A k \in 1 .. Len(flags) : flags[k]

\* C29: the load-more loop of a keyword runs at most 15 iterations and starts
\* no iteration after 3 consecutive ones that saw the post count unchanged;
\* the loop of the feed fallback runs at most 30 iterations and starts none
\* after 5 consecutive stagnant ones or once the scrape target is reached.
LoadMoreTerminates ==
  [][/\ scrape'.scrollCount <= MaxScrollsOf(scrape'.pass)
     /\ (scrape.pc = "scroll" /\ scrape'.pc = "body")
          => /\ scrape.scrollCount < MaxScrollsOf(scrape.pass)
             /\ ~StagnantRun(scrape.unchanged, MaxStagnantOf(scrape.pass))
             /\ scrape.pass = "feed"
                  => scrape.gathered < scrape.target]_vars

\* C29 witness: the loop of the feed fallback has ended below the target and
\* before its 30th iteration, on 5 consecutive stagnant iterations that
\* followed iterations with growth.
FeedEndedStagnant ==
  /\ scrape.pc = "done"
  /\ scrape.pass = "feed"
  /\ scrape.gathered < scrape.target
  /\ scrape.scrollCount > FeedMaxStagnant
  /\ scrape.scrollCount < FeedMaxScrolls
  /\ StagnantRun(scrape.unchanged, FeedMaxStagnant)

\* C30: the scrape target is ceil(N * 1.5) for requested count N; the number
\* of gathered candidates never exceeds it; keywords are searched in order
\* and none is searched once the target is met; the feed fallback runs
\* exactly when the count is below the target after all keywords were tried.
OverscrapeTarget ==
  [][/\ 2 * scrape'.target >= 3 * scrape'.maxComments
     /\ 2 * (scrape'.target - 1) < 3 * scrape'.maxComments
     /\ scrape'.gathered <= scrape'.target
     /\ Len(scrape'.searched) > Len(scrape.searched)
          => /\ scrape'.searched
                  = Append(scrape.searched, Len(scrape.searched) + 1)
             /\ scrape.gathered < scrape.target
     /\ (scrape'.fallback /\ ~scrape.fallback)
          => /\ scrape.gathered < scrape.target
             /\ Len(scrape.searched) = scrape.keywords
     /\ (scrape'.pc = "done" /\ ~scrape'.fallback)
          => scrape'.gathered >= scrape'.target]_vars

\* C30 witness: for N = 1 every keyword was searched, the count was below
\* the target of 2, the feed fallback ran and filled it up to the target.
FallbackFilledTarget ==
  /\ scrape.pc = "done"
  /\ scrape.fallback
  /\ scrape.maxComments = 1
  /\ scrape.keywords = MaxKeywords
  /\ Len(scrape.searched) = scrape.keywords
  /\ scrape.gathered = scrape.target
  /\ scrape.target = 2

\* C31: an error while extracting one post or resolving its URL skips only
\* that post, and an error while searching one keyword skips only that
\* keyword: the loop over the elements goes on with the next element of the
\* same page, the loop over the keywords ends only when every keyword was
\* tried or the target is met, and no error leaves the scraping pass.
ScrapeErrorsLocal ==
  [][/\ scrape'.pc # "thrown"
     /\ scrape'.pc \in {"fallback", "done"}
          => \/ Len(scrape'.searched) = scrape'.keywords
             \/ scrape'.gathered >= scrape'.target
     /\ (/\ scrape.pc \in {"item", "getPostUrl"}
         /\ scrape.elements > 0
         /\ scrape.gathered < scrape.target)
          => /\ scrape'.pc \in {"item", "getPostUrl"}
             /\ scrape'.pass = scrape.pass
             /\ scrape'.searched = scrape.searched
             /\ scrape'.elements
                  \in {scrape.elements, scrape.elements - 1}]_vars

\* C31 witness: getPostUrl threw on an element of the page of the second
\* keyword, after the search of the first keyword failed, and the loop is at
\* the last element of that page.
ItemErrorSkipped ==
  /\ scrape.pc = "item"
  /\ scrape.pass = "keyword"
  /\ Len(scrape.searched) = 2
  /\ scrape.gathered = 0
  /\ scrape.elements = 1
  /\ scrape.postData \in PostDataInputs
  /\ ~IsExcludedPost(scrape.postData.content)
  /\ scrape.postData.reactions >= ScrapeFloor

RateCountersWithinCaps ==
  [][/\ requestCount'.minute.count \in 0 .. MAX_REQUESTS_PER_MINUTE
     /\ requestCount'.hour.count \in 0 .. MAX_REQUESTS_PER_HOUR
     /\ (\/ requestCount'.minute.count < requestCount.minute.count
         \/ requestCount'.minute.resetTime # requestCount.minute.resetTime)
          => time > requestCount.minute.resetTime
     /\ (\/ requestCount'.hour.count < requestCount.hour.count
         \/ requestCount'.hour.resetTime # requestCount.hour.resetTime)
          => time > requestCount.hour.resetTime]_vars

\* C33 witness: the hour counter, at its cap of 50 and waited for, was reset
\* by a call after the end of the hour and counts again.
HourCounterReset ==
  /\ rate.pc = "returned"
  /\ requestCount.hour.resetTime > HourWindow
  /\ requestCount.hour.count = 1
  /\ requestCount.minute.count = 1

\* C34: whenever checkRateLimit returns 0 it has increased both counters by
\* exactly one, and whenever a cap is reached it returns a strictly positive
\* wait time and increases neither counter, also in a call made exactly at
\* the reset time of a window.
CheckRateLimitReserves ==
  [][(rate.pc = "ready" /\ rate'.pc = "returned")
       => LET minute == IF time > requestCount.minute.resetTime
                          THEN 0 ELSE requestCount.minute.count
              hour == IF time > requestCount.hour.resetTime
                        THEN 0 ELSE requestCount.hour.count
          IN /\ rate'.waitTime = 0
                  => /\ requestCount'.minute.count = minute + 1
                     /\ requestCount'.hour.count = hour + 1
             /\ (\/ minute >= MAX_REQUESTS_PER_MINUTE
                 \/ hour >= MAX_REQUESTS_PER_HOUR)
                  => /\ rate'.waitTime > 0
                     /\ requestCount'.minute.count = minute
                     /\ requestCount'.hour.count = hour]_vars

\* maxComments of commentJobSchema: min 1, max 20
MaxCommentsRange == 1 .. 20

DistinctUrlsInRun ==
  /\ \A a, b \in 1 .. Len(scrape.scrapedPosts) :
       scrape.scrapedPosts[a] = scrape.scrapedPosts[b] => a = b
  /\ \A a, b \in 1 .. Len(scrape.postsForCommenting) :
       scrape.postsForCommenting[a] = scrape.postsForCommenting[b] => a = b
  /\ \A x \in PostUrlInputs : scrape.replies[x] <= 1

RunsOnlyRecordedJobs ==
  \A j \in Jobs :
    ~Exists(jobs[j])
      => /\ reports[j].count = 0
         /\ \A w \in Workers : wk[w].jobId = j => ~wk[w].browser
         /\ \A x \in Urls : submitted[<<x, UserOf(j)>>] = 0

====
